---- MODULE Spec2Model ----
(***************************************************************************)
(* Model of the bank-statement analyzer's ingestion pipeline: the upload   *)
(* handler (handleFileChange) that validates the file, requests the        *)
(* extraction stream, reassembles newline-delimited JSON records from      *)
(* arbitrary chunks, decodes them and appends transactions to React state, *)
(* together with the user operations that interleave with it.              *)
(*                                                                         *)
(* The repository holds several revisions of App.tsx.  The variable rev    *)
(* selects the revision whose code the actions follow:                     *)
(*   rev = 1 : src/unnamed/part_001 lines    1..744                        *)
(*   rev = 3 : src/unnamed/part_001 lines 1767..2400                       *)
(*   rev = 4 : src/unnamed/part_002 lines    1..1264                       *)
(* (part_001 745..1765 and part_002 1266..1919 have the same upload        *)
(* handler as rev 1.)                                                      *)
(*                                                                         *)
(* Text is a sequence of lexemes.  A lexeme stands for a run of JSON       *)
(* characters: "d" for the key "date": (with its comma), "x" for a quoted  *)
(* string, a digit for a digit, "{" "}" for the braces, " " for a          *)
(* whitespace character and "\n" for the newline.                          *)
(*                                                                         *)
(* Specifications:                                                         *)
(*   SpecIngest : the ingestion alone, every chunking of the stream texts  *)
(*   SpecDecode : the ingestion of records of other shapes than asked for  *)
(*   SpecEdit   : edits of the table, one upload at a time                 *)
(*   Spec       : edits, category management, a failing localStorage and   *)
(*                the ingestion interleaved, one upload at a time          *)
(*   SpecTable  : filter, selection, bulk update and sort of the table     *)
(*   SpecRace   : uploads that overlap, handlers that run on an older      *)
(*                render, pending category suggestions                     *)
(*   SpecNotes  : notes saved for records whose storage keys coincide      *)
(***************************************************************************)
EXTENDS Integers, Sequences, FiniteSets, TLC

\* ------------------------------------------------------------------ bounds
MaxLines == 2        \* lines in one stream text
MaxClock == 2        \* distinct values Date.now() may return
MaxSessions == 2     \* invocations of handleFileChange that may be in flight
MaxTimers == 1       \* pending auto-recovery timers
MaxCategories == 1   \* categories in the saved category list the app starts with
MaxUserOps == 2      \* user operations on the table in one behaviour
EditChunkLen == 6    \* lexemes per chunk where user operations interleave
MaxChunkLen == 3     \* lexemes per chunk, unless the chunk is the whole rest

\* -------------------------------------------------------------- JS values
JStr(s) == [k |-> "string", s |-> s, n |-> 0]
JNum(n) == [k |-> "number", s |-> "", n |-> n]
JUndef == [k |-> "undefined", s |-> "", n |-> 0]
JNull == [k |-> "null", s |-> "", n |-> 0]

\* JS truthiness of a value: '' , 0, null and undefined are falsy
Truthy(v) == \/ (v.k = "string" /\ v.s # "")
             \/ (v.k = "number" /\ v.n # 0)

\* ------------------------------------------------------------ the lexemes
NL == "\n"
WhiteSpace == {" "}
Digit == {"0", "1", "2"}
KeyTok == {"d", "s", "a", "t", "n", "i", "c"}
StrTok == {"e", "x", "X", "D", "C"}

\* the property name a key lexeme stands for
KeyName(c) == CASE c = "d" -> "date"
                [] c = "s" -> "description"
                [] c = "a" -> "amount"
                [] c = "t" -> "type"
                [] c = "n" -> "notes"
                [] c = "i" -> "id"
                [] c = "c" -> "category"

\* the string a string lexeme stands for
StrOf(c) == CASE c = "e" -> ""
              [] c = "x" -> "x"
              [] c = "X" -> "X"
              [] c = "D" -> "debit"
              [] c = "C" -> "credit"

DigitVal(c) == CASE c = "0" -> 0 [] c = "1" -> 1 [] c = "2" -> 2

DigitChar(n) == CASE n = 0 -> "0" [] n = 1 -> "1" [] n = 2 -> "2" [] n = 3 -> "3"
                  [] n = 4 -> "4" [] n = 5 -> "5" [] n = 6 -> "6" [] n = 7 -> "7"
                  [] n = 8 -> "8" [] n = 9 -> "9"

\* String(n) for a non-negative integer: its decimal digits
RECURSIVE NumToString(_)
NumToString(n) == IF n < 10 THEN DigitChar(n)
                  ELSE NumToString(n \div 10) \o DigitChar(n % 10)

\* --------------------------------------------------------- String.split
IndexOfNL(s) == IF \E i \in 1..Len(s) : s[i] = NL
                THEN CHOOSE i \in 1..Len(s) : s[i] = NL /\ \A j \in 1..(i-1) : s[j] # NL
                ELSE 0

\* buffer.split('\n'): the segments between newlines, at least one element
RECURSIVE Split(_)
Split(s) == LET i == IndexOfNL(s) IN
            IF i = 0 THEN <<s>>
            ELSE <<SubSeq(s, 1, i-1)>> \o Split(SubSeq(s, i+1, Len(s)))

\* line.trim() is the empty string
IsBlank(s) == \A i \in 1..Len(s) : s[i] \in WhiteSpace

\* ------------------------------------------------------------ JSON.parse
EmptyObj == [date |-> JUndef, description |-> JUndef, amount |-> JUndef,
             type |-> JUndef, notes |-> JUndef, id |-> JUndef, category |-> JUndef]

Thrown == [thrown |-> TRUE, kind |-> "none", obj |-> EmptyObj]
Parsed(kind, obj) == [thrown |-> FALSE, kind |-> kind, obj |-> obj]

IsNotWS(c) == c \notin WhiteSpace

\* whitespace inside a number: "1 2" is a syntax error
SplitsNumber(s) ==
    \E i \in 1..(Len(s) - 2) :
        /\ s[i] \in Digit /\ s[i+1] \in WhiteSpace
        /\ \E j \in (i+2)..Len(s) :
              /\ s[j] \in Digit
              /\ \A m \in (i+1)..(j-1) : s[m] \in WhiteSpace

\* index of the last digit of the digit run starting at i
RECURSIVE RunEnd(_, _)
RunEnd(s, i) == IF i < Len(s) /\ s[i+1] \in Digit THEN RunEnd(s, i+1) ELSE i

RECURSIVE NumVal(_)
NumVal(ds) == IF ds = <<>> THEN 0
              ELSE 10 * NumVal(SubSeq(ds, 1, Len(ds)-1)) + DigitVal(ds[Len(ds)])

\* a JSON number has no leading zero
IsNumber(ds) == /\ ds # <<>>
                /\ \A i \in 1..Len(ds) : ds[i] \in Digit
                /\ (Len(ds) > 1 => ds[1] # "0")

\* the members of an object, s[i..Len(s)]; a repeated key keeps the last value
RECURSIVE ParseFields(_, _, _)
ParseFields(s, i, obj) ==
    IF i > Len(s) THEN Parsed("object", obj)
    ELSE IF s[i] \notin KeyTok \/ i = Len(s) THEN Thrown
    ELSE LET key == KeyName(s[i])
             v == s[i+1]
         IN IF v \in StrTok
                THEN ParseFields(s, i+2, [obj EXCEPT ![key] = JStr(StrOf(v))])
            ELSE IF v = "N"
                THEN ParseFields(s, i+2, [obj EXCEPT ![key] = JNull])
            ELSE IF v \in Digit
                THEN LET j == RunEnd(s, i+1)
                         ds == SubSeq(s, i+1, j)
                     IN IF IsNumber(ds)
                        THEN ParseFields(s, j+1, [obj EXCEPT ![key] = JNum(NumVal(ds))])
                        ELSE Thrown
            ELSE Thrown

\* JSON.parse(line): throws, or yields an object, null or a primitive
JSONparse(line) ==
    LET s == SelectSeq(line, IsNotWS) IN
    IF s = <<>> \/ SplitsNumber(line) THEN Thrown
    ELSE IF s[1] = "{"
        THEN IF Len(s) >= 2 /\ s[Len(s)] = "}"
             THEN ParseFields(SubSeq(s, 2, Len(s)-1), 1, EmptyObj)
             ELSE Thrown
    ELSE IF s = <<"N">> THEN Parsed("null", EmptyObj)
    ELSE IF Len(s) = 1 /\ s[1] \in StrTok THEN Parsed("primitive", EmptyObj)
    ELSE IF IsNumber(s) THEN Parsed("primitive", EmptyObj)
    ELSE Thrown

\* ------------------------------------------------------------- the state
VARIABLES
    rev,            \* the revision of App.tsx that runs
    apiKeySet,      \* process.env.API_KEY is defined
    appState,       \* useState<AppState>
    transactions,   \* useState<Transaction[]>: the store
    errorMessage,   \* useState('')
    isStreaming,    \* useState(false)
    categories,     \* useState<Category[]>: records of id and name, in order
    noteStorage,    \* localStorage entries under the tx_note:: keys
    sessions,       \* the invocations of handleFileChange: locals and position
    timers,         \* pending auto-recovery timers of rejected files
    deleteTimers,   \* pending setTimeout callbacks of handleDeleteCategory
    storageFails,   \* localStorage throws on access (disabled, or quota reached)
    uncaught,       \* an exception has left an event handler
    savedNotes,     \* the note last saved for each record (history)
    userOps,        \* number of user operations on the table so far
    rendered,       \* the transactions of the last render, which handlers close over
    suggestions,    \* the category suggestions that await their answer
    filterCategory, \* useState('all'): the category filter of the table
    selectedTransactionIds,   \* useState<Set<string>>: the checked rows
    sortConfig      \* useState({ key: 'date', direction: 'desc' })

vars == <<rev, apiKeySet, appState, transactions, errorMessage, isStreaming,
          categories, noteStorage, sessions, timers, deleteTimers, storageFails,
          uncaught, savedNotes, userOps, rendered, suggestions, filterCategory,
          selectedTransactionIds, sortConfig>>

\* the state of the table's controls and of the pending suggestions
tableVars == <<suggestions, filterCategory, selectedTransactionIds, sortConfig>>

\* React has rendered the new state before the next event is handled
Commit == rendered' = transactions'

Revisions == {1, 3, 4}
Slots == 1..MaxSessions
ClockValues == 1..MaxClock

\* handed lists the lines that reached JSON.parse, updates counts the
\* setTransactions calls of the latest loop iteration, restored the
\* transactions created with a saved note, held the number of transactions
\* the store held when the file was selected (until the stream opens),
\* superseded that the user has started over or selected another file since
IdleSession == [pc |-> "idle", text |-> <<>>, pos |-> 0, buffer |-> <<>>,
                transactionCount |-> 0, finalTransactions |-> <<>>,
                handed |-> <<>>, updates |-> 0, restored |-> 0, held |-> 0,
                superseded |-> FALSE]

InFlight(s) == sessions[s].pc \in {"submitting", "streaming"}

\* the invocations that still run are earlier ones from now on
Superseded == [s \in Slots |-> IF InFlight(s) THEN [sessions[s] EXCEPT !.superseded = TRUE]
                                             ELSE sessions[s]]

\* ---------------------------------------------------------- record decoding
\* the acceptance test with a truthiness test of the amount
IsRecordTruthyAmount(txData) == /\ Truthy(txData.date)
                                /\ Truthy(txData.description)
                                /\ Truthy(txData.amount)
                                /\ Truthy(txData.type)

\* the acceptance test on the parsed object
IsRecord(txData) == /\ Truthy(txData.date)
                    /\ Truthy(txData.description)
                    /\ txData.amount.k = "number"
                    /\ Truthy(txData.type)

\* String(v) as a template literal renders it
ValueToString(v) == CASE v.k = "string" -> v.s
                      [] v.k = "number" -> NumToString(v.n)
                      [] v.k = "null" -> "null"
                      [] v.k = "undefined" -> "undefined"

\* description.toLowerCase().replace(/[^a-z0-9]/g, '').slice(0, 50)
LowerCase(str) == CASE str = "X" -> "x" [] OTHER -> str

createTransactionKey(tx) ==
    "tx_note::" \o ValueToString(tx.date) \o "_" \o LowerCase(tx.description.s)
        \o "_" \o ValueToString(tx.amount) \o "_" \o ValueToString(tx.type)

\* localStorage.getItem(key): the stored string, or null
getItem(key) == IF \E e \in noteStorage : e.key = key
                THEN JStr((CHOOSE e \in noteStorage : e.key = key).note)
                ELSE JNull

\* savedNote ?? undefined
NeverRestored(v) == JUndef
OrUndefined(v) == IF v.k = "null" THEN JUndef ELSE v

\* the revisions that restore a saved note when a record is accepted
RestoresNotes == rev \in {3, 4}

\* `${Date.now()}-${transactionCount++}`
NoCounterId(now, count) == NumToString(now)
TransactionId(now, count) == NumToString(now) \o "-" \o NumToString(count)

\* { ...txData, id, category: 'Uncategorized' [, notes: savedNote ?? undefined] }
NewTransaction(txData, now, count) ==
    [id |-> TransactionId(now, count),
     date |-> txData.date,
     description |-> txData.description,
     amount |-> txData.amount,
     type |-> txData.type,
     category |-> "Uncategorized",
     notes |-> IF RestoresNotes
               THEN OrUndefined(getItem(createTransactionKey(txData)))
               ELSE txData.notes]

\* the line makes the body of the inner try block throw: JSON.parse rejects
\* it, txData is null, description has no toLowerCase, or localStorage throws
LineThrows(line) ==
    /\ ~IsBlank(line)
    /\ LET p == JSONparse(line) IN
        \/ p.thrown
        \/ p.kind = "null"
        \/ (p.kind = "object" /\ IsRecord(p.obj) /\ RestoresNotes
                /\ (p.obj.description.k # "string" \/ storageFails))

\* the exception of a line leaves the inner try/catch, which catches all
EscapesUncaught(line) == LineThrows(line)
Escapes(line) == FALSE

\* the body of the per-line loop reaches the push
Accepts(line) ==
    /\ ~IsBlank(line)
    /\ LET p == JSONparse(line) IN
        /\ ~p.thrown
        /\ p.kind = "object"             \* null.date throws, a primitive has no date
        /\ IsRecord(p.obj)
        /\ (RestoresNotes => p.obj.description.k = "string")  \* else toLowerCase throws
        /\ (RestoresNotes => ~storageFails)                   \* else getItem throws

\* the transactions pushed for the lines, in line order; clocks holds the
\* values Date.now() returns, one per accepted line
RECURSIVE DecodeLines(_, _, _)
DecodeLines(lines, count, clocks) ==
    IF lines = <<>> THEN <<>>
    ELSE IF Accepts(Head(lines))
        THEN <<NewTransaction(JSONparse(Head(lines)).obj, Head(clocks), count)>>
                 \o DecodeLines(Tail(lines), count + 1, Tail(clocks))
        ELSE DecodeLines(Tail(lines), count, clocks)

NumWithNote(txs) == Cardinality({i \in 1..Len(txs) : txs[i].notes # JUndef})

NumAccepted(lines) == Cardinality({i \in 1..Len(lines) : Accepts(lines[i])})

\* if (!line.trim()) continue: the lines that reach JSON.parse
IsNotBlank(line) == ~IsBlank(line)
HandedLines(lines) == SelectSeq(lines, IsNotBlank)

\* lines.pop() || ''
DropCarryover(lines) == <<>>
Carryover(lines) == lines[Len(lines)]

\* the complete lines of buffer + chunk.text
CompleteLines(buffer, chunk) ==
    LET lines == Split(buffer \o chunk) IN SubSeq(lines, 1, Len(lines) - 1)

\* the revisions that decode the carryover when the stream ends
FlushesAtEnd == rev \in {1, 4}

\* ------------------------------------------------------------- the inputs
\* lines the collaborator may emit
ValidLine1 == <<"{", "d", "x", "s", "x", "a", "1", "2", "t", "D", "}">>
ValidLine2 == <<"{", "s", "X", "d", "x", "a", "2", "t", "C", "}", " ">>
EmptyLine == <<>>
TruncatedLine == <<"{", "d", "x", "s">>
MissingTypeLine == <<"{", "d", "x", "s", "x", "a", "1", "}">>
StringAmountLine == <<"{", "d", "x", "s", "x", "a", "x", "t", "D", "}">>

ValidLines == {ValidLine1, ValidLine2}
InvalidLines == {EmptyLine, TruncatedLine, MissingTypeLine, StringAmountLine}
LineKinds == ValidLines \cup InvalidLines

RECURSIVE Join(_)
Join(ls) == IF ls = <<>> THEN <<>>
            ELSE IF Len(ls) = 1 THEN ls[1]
            ELSE ls[1] \o <<NL>> \o Join(Tail(ls))

LineSeqs(n) == UNION {[1..m -> LineKinds] : m \in 0..n}

\* the texts a stream may deliver: lines joined by newlines, with or without
\* a newline after the last one
StreamTexts == {Join(ls) \o end : ls \in LineSeqs(MaxLines), end \in {<<>>, <<NL>>}}

\* the files the user may select
PdfName == <<"s", ".", "p", "d", "f">>
UpperPdfName == <<"s", ".", "P", "D", "F">>
TxtName == <<"s", ".", "t", "x", "t">>
NoFile == [present |-> FALSE, type |-> "", name |-> <<>>]
Files == {NoFile} \cup
         [present : {TRUE}, type : {"application/pdf", "text/plain", ""},
          name : {PdfName, UpperPdfName, TxtName}]

\* name.toLowerCase()
LowerChar(c) == CASE c = "P" -> "p" [] c = "D" -> "d" [] c = "F" -> "f" [] OTHER -> c
ToLowerCase(name) == [i \in 1..Len(name) |-> LowerChar(name[i])]

\* name.endsWith(suffix)
EndsWith(name, suffix) ==
    /\ Len(name) >= Len(suffix)
    /\ SubSeq(name, Len(name) - Len(suffix) + 1, Len(name)) = suffix

DotPdf == <<".", "p", "d", "f">>

\* the validation of the selected file
AcceptsFile(file) ==
    IF rev = 3
    THEN file.present /\ ~(file.type # "application/pdf" /\ ~EndsWith(ToLowerCase(file.name), DotPdf))
    ELSE file.present /\ file.type = "application/pdf"

InvalidPdfMessage == "Please upload a valid PDF file."
FailedMessage(cause) == "Failed to analyze statement. " \o cause

\* ------------------------------------------------------------ the screens
\* what the render shows for the current state
View ==
    CASE rev = 1 -> (CASE appState = "upload" -> "UploadScreen"
                       [] appState = "analyzing" -> "AnalysisScreen"
                       [] appState = "error" -> "ErrorScreen")
      [] rev = 3 -> (CASE appState \in {"upload", "error"} -> "UploadScreen"
                       [] appState = "analyzing" -> "AnalysisScreen")
      [] rev = 4 -> (CASE appState = "upload" -> "UploadScreen"
                       [] appState = "analyzing" -> "AnalysisScreen"
                       [] appState = "error" /\ Len(transactions) > 0 -> "AnalysisScreen"
                       [] appState = "error" /\ Len(transactions) = 0 -> "ErrorScreen")

\* ----------------------------------------------------------------- Init
DefaultCategories == <<[id |-> "1", name |-> "Groceries"], [id |-> "2", name |-> "Utilities"],
                       [id |-> "3", name |-> "Rent"], [id |-> "4", name |-> "Entertainment"]>>

Init ==
    /\ rev \in Revisions
    /\ apiKeySet \in BOOLEAN
    /\ appState = "upload"
    /\ transactions = <<>>
    /\ errorMessage = ""
    /\ isStreaming = FALSE
    /\ categories = SubSeq(DefaultCategories, 1, MaxCategories)
    /\ noteStorage = {}
    /\ sessions = [s \in Slots |-> IdleSession]
    /\ timers = 0
    /\ deleteTimers = {}
    /\ storageFails = FALSE
    /\ uncaught = FALSE
    /\ savedNotes = {}
    /\ userOps = 0
    /\ rendered = <<>>
    /\ suggestions = {}
    /\ filterCategory = "all"
    /\ selectedTransactionIds = {}
    /\ sortConfig = [key |-> "date", direction |-> "desc"]

\* --------------------------------------------------------- handleFileChange
\* the slot a new invocation runs in
FreeSlot(s) == ~InFlight(s) /\ \A r \in Slots : r < s => InFlight(r)

\* the store after the catch block, which has no setTransactions call
StoreClearedOnFailure(txs) == <<>>
StoreAfterFailure(txs) == txs

\* setTransactions([]) at the start of the handler
StoreKeptOnUpload(txs) == txs
StoreOnUpload(txs) == <<>>

\* the catch and finally blocks of the handler
CatchBlock(cause) ==
    /\ errorMessage' = FailedMessage(cause)
    /\ appState' = "error"
    /\ isStreaming' = FALSE

\* a file is selected and passes the validation: the store is cleared and the
\* request is prepared; without an API key the handler throws at once
handleFileChange_Accept(s, file) ==
    /\ View = "UploadScreen"
    /\ FreeSlot(s)
    /\ AcceptsFile(file)
    /\ transactions' = StoreOnUpload(transactions)
    /\ IF apiKeySet
       THEN /\ appState' = "analyzing"
            /\ errorMessage' = ""
            /\ isStreaming' = TRUE
            /\ sessions' = [Superseded EXCEPT ![s] =
                  [IdleSession EXCEPT !.pc = "submitting", !.held = Len(transactions)]]
       ELSE /\ CatchBlock("API_KEY environment variable not set.")
            /\ sessions' = [Superseded EXCEPT ![s] =
                  [IdleSession EXCEPT !.pc = "failed", !.held = Len(transactions)]]
    /\ UNCHANGED <<savedNotes, deleteTimers, storageFails, uncaught, rev, apiKeySet, categories, noteStorage, timers, userOps>>
    /\ UNCHANGED tableVars

\* a file is selected and fails the validation
handleFileChange_Reject(file) ==
    /\ View = "UploadScreen"
    /\ ~AcceptsFile(file)
    /\ IF rev = 3
       THEN /\ errorMessage' = (IF file.present THEN InvalidPdfMessage ELSE errorMessage)
            /\ UNCHANGED <<appState, timers>>
       ELSE /\ timers < MaxTimers
            /\ errorMessage' = InvalidPdfMessage
            /\ appState' = "error"
            /\ timers' = timers + 1
    /\ UNCHANGED <<savedNotes, deleteTimers, storageFails, uncaught, rev, apiKeySet, transactions, isStreaming, categories,
                   noteStorage, sessions, userOps>>
    /\ UNCHANGED tableVars

\* the setTimeout callback of a rejected file
recoveryTimer ==
    /\ timers > 0
    /\ timers' = timers - 1
    /\ IF appState = "error"
       THEN appState' = "upload" /\ errorMessage' = ""
       ELSE UNCHANGED <<appState, errorMessage>>
    /\ UNCHANGED <<savedNotes, deleteTimers, storageFails, uncaught, rev, apiKeySet, transactions, isStreaming, categories,
                   noteStorage, sessions, userOps>>
    /\ UNCHANGED tableVars

\* generateContentStream rejects (network, authentication, quota)
requestFails(s) ==
    /\ sessions[s].pc = "submitting"
    /\ CatchBlock("request failed")
    /\ transactions' = StoreAfterFailure(transactions)
    /\ sessions' = [sessions EXCEPT ![s].pc = "failed"]
    /\ UNCHANGED <<savedNotes, deleteTimers, storageFails, uncaught, rev, apiKeySet, categories, noteStorage, timers, userOps>>
    /\ UNCHANGED tableVars

\* generateContentStream resolves: let buffer = ''; let transactionCount = 0
streamOpens(s, text) ==
    /\ sessions[s].pc = "submitting"
    /\ sessions' = [sessions EXCEPT ![s] =
                      [IdleSession EXCEPT !.pc = "streaming", !.text = text,
                                          !.superseded = sessions[s].superseded]]
    /\ UNCHANGED <<savedNotes, deleteTimers, storageFails, uncaught, rev, apiKeySet, appState, transactions, errorMessage, isStreaming,
                   categories, noteStorage, timers, userOps>>
    /\ UNCHANGED tableVars

\* the batch put in front of the store
PrependBatch(s, newTxs) ==
    IF rev = 4 THEN newTxs \o sessions[s].finalTransactions
               ELSE newTxs \o transactions

\* the store after a chunk that completed the transactions newTxs
AppendBatch(s, newTxs) ==
    IF rev = 4 THEN sessions[s].finalTransactions \o newTxs
               ELSE transactions \o newTxs

\* one iteration of the for-await loop: the next len lexemes arrive as a
\* chunk; Date.now() returns values of nows
streamChunk(s, len, nows) ==
    LET ses == sessions[s]
        chunk == SubSeq(ses.text, ses.pos + 1, ses.pos + len)
        all == Split(ses.buffer \o chunk)
        lines == CompleteLines(ses.buffer, chunk)
    IN
    /\ ses.pc = "streaming"
    /\ len \in 1..(Len(ses.text) - ses.pos)
    /\ IF \E i \in 1..Len(lines) : Escapes(lines[i])
       THEN \* an exception in the loop body reaches the outer catch
            /\ CatchBlock("decode failed")
            /\ transactions' = StoreAfterFailure(transactions)
            /\ sessions' = [sessions EXCEPT ![s].pc = "failed"]
            /\ UNCHANGED <<savedNotes, deleteTimers, storageFails, uncaught, rev, apiKeySet, categories, noteStorage, timers, userOps>>
       ELSE /\ \E clocks \in [1..NumAccepted(lines) -> nows] :
                LET newTxs == DecodeLines(lines, ses.transactionCount, clocks) IN
                /\ transactions' = IF newTxs # <<>> THEN AppendBatch(s, newTxs)
                                                   ELSE transactions
                /\ sessions' = [sessions EXCEPT ![s] =
                      [ses EXCEPT !.pos = ses.pos + len,
                                  !.buffer = Carryover(all),
                                  !.transactionCount = ses.transactionCount + Len(newTxs),
                                  !.handed = ses.handed \o HandedLines(lines),
                                  !.updates = IF newTxs # <<>> THEN 1 ELSE 0,
                                  !.restored = ses.restored + NumWithNote(newTxs),
                                  !.finalTransactions =
                                      IF rev = 4 THEN AppendBatch(s, newTxs)
                                                 ELSE <<>>]]
            /\ UNCHANGED <<savedNotes, deleteTimers, storageFails, uncaught, rev, apiKeySet, appState, errorMessage, isStreaming,
                           categories, noteStorage, timers, userOps>>
    /\ UNCHANGED tableVars

\* the stream iterator throws while the handler awaits the next chunk
streamFails(s) ==
    /\ sessions[s].pc = "streaming"
    /\ CatchBlock("stream failed")
    /\ transactions' = StoreAfterFailure(transactions)
    /\ sessions' = [sessions EXCEPT ![s].pc = "failed"]
    /\ UNCHANGED <<savedNotes, deleteTimers, storageFails, uncaught, rev, apiKeySet, categories, noteStorage, timers, userOps>>
    /\ UNCHANGED tableVars

\* the stream ends: the carryover is decoded as a last line (where the
\* revision does so) and the finally block runs
streamEnd(s, nows) ==
    LET ses == sessions[s]
        last == IF FlushesAtEnd THEN <<ses.buffer>> ELSE <<>>
    IN
    /\ ses.pc = "streaming"
    /\ ses.pos = Len(ses.text)
    /\ IF \E i \in 1..Len(last) : Escapes(last[i])
       THEN /\ CatchBlock("decode failed")
            /\ transactions' = StoreAfterFailure(transactions)
            /\ sessions' = [sessions EXCEPT ![s].pc = "failed"]
            /\ UNCHANGED <<savedNotes, deleteTimers, storageFails, uncaught, rev, apiKeySet, categories, noteStorage, timers, userOps>>
       ELSE /\ \E clocks \in [1..NumAccepted(last) -> nows] :
                LET newTxs == DecodeLines(last, ses.transactionCount, clocks) IN
                /\ transactions' = transactions \o newTxs
                /\ sessions' = [sessions EXCEPT ![s] =
                      [ses EXCEPT !.pc = "done",
                                  !.handed = ses.handed \o HandedLines(last),
                                  !.updates = Len(newTxs),
                                  !.restored = ses.restored + NumWithNote(newTxs),
                                  !.transactionCount = ses.transactionCount + Len(newTxs)]]
            /\ isStreaming' = FALSE
            /\ UNCHANGED <<savedNotes, deleteTimers, storageFails, uncaught, rev, apiKeySet, appState, errorMessage, categories,
                           noteStorage, timers, userOps>>
    /\ UNCHANGED tableVars

\* the lengths of the next chunk: up to MaxChunkLen lexemes, which puts a
\* chunk boundary at every position of the text, or all that is left of it
ChunkLens(s) ==
    LET rest == Len(sessions[s].text) - sessions[s].pos IN
    {len \in 1..rest : len <= MaxChunkLen \/ len = rest}

\* the ingestion on its own: no user operation interleaves
IngestNext ==
    \/ \E s \in Slots, file \in Files : handleFileChange_Accept(s, file) /\ Commit
    \/ \E file \in Files : handleFileChange_Reject(file) /\ Commit
    \/ recoveryTimer /\ Commit
    \/ \E s \in Slots : requestFails(s) /\ Commit
    \/ \E s \in Slots :
          sessions[s].pc = "submitting" /\ \E text \in StreamTexts : streamOpens(s, text) /\ Commit
    \/ \E s \in Slots : \E len \in ChunkLens(s) : streamChunk(s, len, ClockValues) /\ Commit
    \/ \E s \in Slots : streamFails(s) /\ Commit
    \/ \E s \in Slots : streamEnd(s, ClockValues) /\ Commit

SpecIngest == Init /\ [][IngestNext]_vars

\* --------------------------------------- records of other shapes than asked
\* lines that are valid JSON but not the record the prompt asks for
OddTypeLine == <<"{", "d", "x", "s", "x", "a", "1", "t", "x", "}">>
NumericDateLine == <<"{", "d", "1", "s", "x", "a", "1", "t", "D", "}">>
NumericDescriptionLine == <<"{", "d", "x", "s", "2", "a", "1", "t", "D", "}">>
ExtraKeysLine == <<"{", "d", "x", "s", "x", "a", "1", "t", "D",
                   "n", "X", "i", "x", "c", "x", "}">>
NullLine == <<"N">>

OddLines == {OddTypeLine, NumericDateLine, NumericDescriptionLine, ExtraKeysLine, NullLine}

\* one such line, or a valid one, with or without the final newline
DecodeTexts == {l \o end : l \in OddLines \cup {ValidLine1}, end \in {<<>>, <<NL>>}}

\* the ingestion of the texts of DecodeTexts
DecodeNext ==
    \/ \E s \in Slots, file \in Files : handleFileChange_Accept(s, file) /\ Commit
    \/ \E file \in Files : handleFileChange_Reject(file) /\ Commit
    \/ recoveryTimer /\ Commit
    \/ \E s \in Slots : requestFails(s) /\ Commit
    \/ \E s \in Slots :
          sessions[s].pc = "submitting" /\ \E text \in DecodeTexts : streamOpens(s, text) /\ Commit
    \/ \E s \in Slots : \E len \in ChunkLens(s) : streamChunk(s, len, ClockValues) /\ Commit
    \/ \E s \in Slots : streamFails(s) /\ Commit
    \/ \E s \in Slots : streamEnd(s, ClockValues) /\ Commit

SpecDecode == Init /\ [][DecodeNext]_vars

\* ------------------------------------------------------ the user operations
\* the options of a row's category select
CategoryNames == {categories[i].name : i \in 1..Len(categories)}

CategoryOptions ==
    CategoryNames
        \cup (IF rev = 3 THEN {} ELSE {"Uncategorized"})

\* the handler's transactions.some / find looks at the list of its render
HasId(id) == \E i \in 1..Len(rendered) : rendered[i].id = id

\* the list a handler maps over: the revision's setTransactions takes an
\* updater of the current store, or the list of the handler's render
MappedList == IF rev = 3 THEN transactions ELSE rendered

\* the category given to every row
SetCategoryOfAll(txs, id, category) ==
    [i \in 1..Len(txs) |-> [txs[i] EXCEPT !.category = category]]

\* txs.map(t => t.id === transactionId ? { ...t, category } : t)
SetCategory(txs, id, category) ==
    [i \in 1..Len(txs) |-> IF txs[i].id = id
                            THEN [txs[i] EXCEPT !.category = category]
                            ELSE txs[i]]

\* txs.map(t => t.id === transactionId ? { ...t, notes } : t)
SetNotes(txs, id, notes) ==
    [i \in 1..Len(txs) |-> IF txs[i].id = id
                            THEN [txs[i] EXCEPT !.notes = notes]
                            ELSE txs[i]]

\* the select of a row changes
handleTransactionCategoryChange(id, newCategory) ==
    /\ View = "AnalysisScreen"
    /\ userOps < MaxUserOps
    /\ newCategory \in CategoryOptions
    /\ transactions' = SetCategory(MappedList, id, newCategory)
    /\ userOps' = userOps + 1
    /\ UNCHANGED <<savedNotes, deleteTimers, storageFails, uncaught, rev, apiKeySet, appState, errorMessage, isStreaming, categories,
                   noteStorage, sessions, timers>>
    /\ UNCHANGED tableVars

\* what the user may type as a note
NoteInputs == {"", "memo "}

\* text.trim()
Trim(text) == CASE text = "memo " -> "memo" [] text = " Food" -> "Food" [] OTHER -> text

\* localStorage.setItem / removeItem
setItem(key, note) == {e \in noteStorage : e.key # key} \cup {[key |-> key, note |-> note]}
removeItem(key) == {e \in noteStorage : e.key # key}

\* the record of a transaction: the four fields the statement gave it
RecordOf(tx) == [date |-> tx.date, description |-> tx.description,
                 amount |-> tx.amount, type |-> tx.type]

\* the history of saved notes after the note of tx was saved as note
NoteSaved(tx, note) ==
    {e \in savedNotes : e.record # RecordOf(tx)}
        \cup {[record |-> RecordOf(tx), note |-> note]}

\* transactions.find(t => t.id === transactionId)
FindTransaction(id) ==
    rendered[CHOOSE i \in 1..Len(rendered) :
                 /\ rendered[i].id = id
                 /\ \A j \in 1..(i-1) : rendered[j].id # id]

\* the revisions whose handleSaveNote writes the note to localStorage
PersistsNotes == rev \in {3, 4}

\* a note is saved: the revision stores it on the transaction and, where it
\* persists notes, in localStorage under the key of the transaction found
\* by id; a throwing localStorage ends the handler before the store is set
handleSaveNote(id, text) ==
    /\ View = "AnalysisScreen"
    /\ userOps < MaxUserOps
    /\ LET note == IF rev = 3 THEN text ELSE Trim(text)
           value == IF rev = 1 THEN JStr(note)
                    ELSE IF note # "" THEN JStr(note) ELSE JUndef
       IN IF PersistsNotes /\ ~HasId(id)
          THEN UNCHANGED <<transactions, noteStorage, uncaught, savedNotes>>
          ELSE IF PersistsNotes /\ storageFails
          THEN /\ uncaught' = TRUE
               /\ UNCHANGED <<transactions, noteStorage, savedNotes>>
          ELSE /\ transactions' = SetNotes(MappedList, id, value)
               /\ savedNotes' = IF HasId(id) THEN NoteSaved(FindTransaction(id), note)
                                             ELSE savedNotes
               /\ noteStorage' =
                     IF ~PersistsNotes THEN noteStorage
                     ELSE IF note # ""
                         THEN setItem(createTransactionKey(FindTransaction(id)), note)
                         ELSE removeItem(createTransactionKey(FindTransaction(id)))
               /\ UNCHANGED uncaught
    /\ userOps' = userOps + 1
    /\ UNCHANGED <<deleteTimers, storageFails, rev, apiKeySet, appState, errorMessage,
                   isStreaming, categories, sessions, timers>>
    /\ UNCHANGED tableVars

\* localStorage starts to throw: the quota is reached or access is denied
storageBreaks ==
    /\ ~storageFails
    /\ storageFails' = TRUE
    /\ UNCHANGED <<savedNotes, deleteTimers, uncaught, rev, apiKeySet, appState, transactions,
                   errorMessage, isStreaming, categories, noteStorage, sessions,
                   timers, userOps>>
    /\ UNCHANGED tableVars

\* the Start Over / Try Again button; where the revision clears the filters
\* and a filter changes, the effect on the filters clears the selection
resetApp ==
    /\ View = "AnalysisScreen" \/ (View = "ErrorScreen" /\ rev # 3)
    /\ userOps < MaxUserOps
    /\ appState' = "upload"
    /\ transactions' = <<>>
    /\ errorMessage' = ""
    /\ filterCategory' = (IF rev = 3 THEN filterCategory ELSE "all")   \* handleClearFilters
    /\ selectedTransactionIds' = (IF rev = 4 /\ filterCategory # "all"
                                  THEN {} ELSE selectedTransactionIds)
    /\ userOps' = userOps + 1
    /\ sessions' = Superseded
    /\ UNCHANGED <<savedNotes, deleteTimers, storageFails, uncaught, rev, apiKeySet, isStreaming,
                   categories, noteStorage, timers, suggestions, sortConfig>>

\* ------------------------------------------------------------ the categories
\* what the user may type as the name of a category
NameInputs == {" Food", "groceries", ""}

\* name.toLowerCase()
LowerName(name) == CASE name = "Food" -> "food"
                     [] name = "Groceries" -> "groceries"
                     [] name = "Utilities" -> "utilities"
                     [] OTHER -> name

CategoryIds == {categories[i].id : i \in 1..Len(categories)}
FindCategory(id) == CHOOSE c \in {categories[i] : i \in 1..Len(categories)} : c.id = id

\* categories.some(c => c.name.toLowerCase() === name.toLowerCase() && c.id !== id)
NameTaken(name, id) ==
    \E i \in 1..Len(categories) :
        LowerName(categories[i].name) = LowerName(name) /\ categories[i].id # id

\* Date.now().toString() as a category id: the clock is far beyond the ids
\* '1'..'8' of the default categories
CategoryClock == {MaxClock + 8 + now : now \in ClockValues}

\* txs.map(t => t.category === from ? { ...t, category: to } : t)
Recategorize(txs, from, to) ==
    [i \in 1..Len(txs) |-> IF txs[i].category = from
                            THEN [txs[i] EXCEPT !.category = to]
                            ELSE txs[i]]

handleAddCategory(name, now) ==
    /\ View = "AnalysisScreen"
    /\ userOps < MaxUserOps
    /\ Len(categories) <= MaxCategories
    /\ Trim(name) # ""
    /\ ~NameTaken(Trim(name), "")
    /\ NumToString(now) \notin CategoryIds   \* two clicks are more than 1 ms apart
    /\ categories' = Append(categories, [id |-> NumToString(now), name |-> Trim(name)])
    /\ userOps' = userOps + 1
    /\ UNCHANGED <<savedNotes, deleteTimers, storageFails, uncaught, rev, apiKeySet, appState,
                   transactions, errorMessage, isStreaming, noteStorage, sessions, timers>>
    /\ UNCHANGED tableVars

\* the check mark of the category being edited: the category and, where the
\* revision does so, the transactions that carry its name are renamed
handleSaveCategory(id, name) ==
    /\ View = "AnalysisScreen"
    /\ userOps < MaxUserOps
    /\ id \in CategoryIds
    /\ IF rev = 3
       THEN /\ categories' = [i \in 1..Len(categories) |->
                                IF categories[i].id = id
                                THEN [categories[i] EXCEPT !.name = name]
                                ELSE categories[i]]
            /\ UNCHANGED transactions
       ELSE IF Trim(name) = "" \/ NameTaken(Trim(name), id)
       THEN UNCHANGED <<categories, transactions>>
       ELSE /\ categories' = [i \in 1..Len(categories) |->
                                IF categories[i].id = id
                                THEN [categories[i] EXCEPT !.name = Trim(name)]
                                ELSE categories[i]]
            /\ transactions' = Recategorize(rendered, FindCategory(id).name, Trim(name))
    /\ userOps' = userOps + 1
    /\ UNCHANGED <<savedNotes, deleteTimers, storageFails, uncaught, rev, apiKeySet, appState,
                   errorMessage, isStreaming, noteStorage, sessions, timers>>
    /\ UNCHANGED tableVars

WithoutCategory(id) == SelectSeq(categories, LAMBDA c : c.id # id)

\* the trash icon of a category: the deletion itself, or the timer that will
\* run it with the category as this render knows it
handleDeleteCategory(id) ==
    /\ View = "AnalysisScreen"
    /\ userOps < MaxUserOps
    /\ id \in CategoryIds
    /\ (rev = 3 => FindCategory(id).name # "Uncategorized")   \* it has no trash icon
    /\ IF rev = 3
       THEN /\ transactions' = Recategorize(transactions, FindCategory(id).name,
                                            "Uncategorized")
            /\ categories' = WithoutCategory(id)
            /\ UNCHANGED deleteTimers
       ELSE /\ deleteTimers' = deleteTimers \cup {FindCategory(id)}
            /\ UNCHANGED <<transactions, categories>>
    /\ userOps' = userOps + 1
    /\ UNCHANGED <<savedNotes, storageFails, uncaught, rev, apiKeySet, appState,
                   errorMessage, isStreaming, noteStorage, sessions, timers>>
    /\ UNCHANGED tableVars

\* the setTimeout callback of handleDeleteCategory, 300 ms after the click
deleteTimer(categoryToDelete) ==
    /\ categoryToDelete \in deleteTimers
    /\ deleteTimers' = deleteTimers \ {categoryToDelete}
    /\ categories' = WithoutCategory(categoryToDelete.id)
    /\ transactions' = Recategorize(transactions, categoryToDelete.name, "Uncategorized")
    /\ UNCHANGED <<savedNotes, storageFails, uncaught, rev, apiKeySet, appState, errorMessage,
                   isStreaming, noteStorage, sessions, timers, userOps>>
    /\ UNCHANGED tableVars

\* the texts of the streams that user operations interleave with
EditTexts == {Join(ls) \o end : ls \in [1..MaxLines -> ValidLines], end \in {<<>>, <<NL>>}}

\* the collaborator delivers chunks of EditChunkLen lexemes, the last one shorter
EditChunkLens(s) ==
    LET rest == Len(sessions[s].text) - sessions[s].pos IN
    {IF rest < EditChunkLen THEN rest ELSE EditChunkLen}

TransactionIds == {transactions[i].id : i \in 1..Len(transactions)}

\* an id that no transaction has
AbsentId == "0-0"
RowIds == TransactionIds \cup {AbsentId}

Next ==
    \/ \E s \in Slots, file \in Files :
          /\ \A r \in Slots : ~InFlight(r)
          /\ handleFileChange_Accept(s, file) /\ Commit
    \/ \E file \in Files : handleFileChange_Reject(file) /\ Commit
    \/ recoveryTimer /\ Commit
    \/ \E s \in Slots : requestFails(s) /\ Commit
    \/ \E s \in Slots :
          sessions[s].pc = "submitting" /\ \E text \in EditTexts : streamOpens(s, text) /\ Commit
    \/ \E s \in Slots : \E len \in EditChunkLens(s) : streamChunk(s, len, ClockValues) /\ Commit
    \/ \E s \in Slots : streamFails(s) /\ Commit
    \/ \E s \in Slots : streamEnd(s, ClockValues) /\ Commit
    \/ \E id \in RowIds, c \in CategoryOptions : handleTransactionCategoryChange(id, c) /\ Commit
    \/ \E id \in RowIds, text \in NoteInputs : handleSaveNote(id, text) /\ Commit
    \/ resetApp /\ Commit
    \/ storageBreaks /\ Commit
    \/ \E name \in NameInputs, now \in CategoryClock : handleAddCategory(name, now) /\ Commit
    \/ \E id \in CategoryIds, name \in NameInputs : handleSaveCategory(id, name) /\ Commit
    \/ \E id \in CategoryIds : handleDeleteCategory(id) /\ Commit
    \/ \E d \in deleteTimers : deleteTimer(d) /\ Commit

Spec == Init /\ [][Next]_vars

\* a clock that stands still, so that the counter alone tells the ids apart
StoppedClock == {1}

\* the edits of the table with one upload at a time: a file is selected
\* only when no earlier invocation of handleFileChange is still running,
\* localStorage works and the clock stands still
EditNext ==
    \/ \E s \in Slots, file \in Files :
          /\ \A r \in Slots : ~InFlight(r)
          /\ handleFileChange_Accept(s, file) /\ Commit
    \/ \E file \in Files : handleFileChange_Reject(file) /\ Commit
    \/ recoveryTimer /\ Commit
    \/ \E s \in Slots : requestFails(s) /\ Commit
    \/ \E s \in Slots :
          sessions[s].pc = "submitting" /\ \E text \in EditTexts : streamOpens(s, text) /\ Commit
    \/ \E s \in Slots : \E len \in EditChunkLens(s) : streamChunk(s, len, StoppedClock) /\ Commit
    \/ \E s \in Slots : streamFails(s) /\ Commit
    \/ \E s \in Slots : streamEnd(s, StoppedClock) /\ Commit
    \/ \E id \in RowIds, c \in CategoryOptions : handleTransactionCategoryChange(id, c) /\ Commit
    \/ \E id \in RowIds, text \in NoteInputs : handleSaveNote(id, text) /\ Commit
    \/ resetApp /\ Commit

SpecEdit == Init /\ [][EditNext]_vars

\* ------------------------------------------------- records with similar keys
\* the record of ValidLine1 with its description in upper case
UpperDescriptionLine == <<"{", "d", "x", "s", "X", "a", "1", "2", "t", "D", "}">>

\* statements of one record
NoteTexts == {l \o <<NL>> : l \in {ValidLine1, UpperDescriptionLine}}

\* notes are saved and statements uploaded again, one upload at a time
NotesNext ==
    \/ \E s \in Slots, file \in Files :
          /\ \A r \in Slots : ~InFlight(r)
          /\ handleFileChange_Accept(s, file) /\ Commit
    \/ \E s \in Slots :
          sessions[s].pc = "submitting" /\ \E text \in NoteTexts : streamOpens(s, text) /\ Commit
    \/ \E s \in Slots : \E len \in EditChunkLens(s) : streamChunk(s, len, StoppedClock) /\ Commit
    \/ \E s \in Slots : streamEnd(s, StoppedClock) /\ Commit
    \/ \E id \in RowIds, text \in NoteInputs : handleSaveNote(id, text) /\ Commit
    \/ resetApp /\ Commit

SpecNotes == Init /\ [][NotesNext]_vars

\* ---------------------------------------------------------------- the table
\* the options of the category filter
FilterOptions == {"all"} \cup CategoryNames \cup {"Uncategorized"}

\* filterCategory === 'all' || tx.category === filterCategory (the other
\* filters stay at their defaults, which match every transaction)
MatchesFilter(tx) == filterCategory = "all" \/ tx.category = filterCategory

\* the rows of the table: the transactions of the render that pass the filter
filteredTransactions == SelectSeq(rendered, MatchesFilter)

VisibleIds == {filteredTransactions[i].id : i \in 1..Len(filteredTransactions)}

\* the category filter changes; the effect on the filters clears the selection
setFilterCategory(c) ==
    /\ View = "AnalysisScreen"
    /\ c \in FilterOptions
    /\ c # filterCategory
    /\ filterCategory' = c
    /\ selectedTransactionIds' = {}
    /\ UNCHANGED <<rev, apiKeySet, appState, transactions, errorMessage, isStreaming,
                   categories, noteStorage, sessions, timers, deleteTimers, storageFails,
                   uncaught, savedNotes, userOps, suggestions, sortConfig>>

\* the check box of a row
handleSelectTransaction(id, checked) ==
    /\ rev = 4
    /\ View = "AnalysisScreen"
    /\ id \in VisibleIds
    /\ checked = (id \notin selectedTransactionIds)
    /\ selectedTransactionIds' = IF checked THEN selectedTransactionIds \cup {id}
                                            ELSE selectedTransactionIds \ {id}
    /\ UNCHANGED <<rev, apiKeySet, appState, transactions, errorMessage, isStreaming,
                   categories, noteStorage, sessions, timers, deleteTimers, storageFails,
                   uncaught, savedNotes, userOps, suggestions, filterCategory, sortConfig>>

\* the check box of the table header
handleSelectAllTransactions(checked) ==
    /\ rev = 4
    /\ View = "AnalysisScreen"
    /\ filteredTransactions # <<>>
    /\ checked = (Cardinality(selectedTransactionIds) # Len(filteredTransactions))
    /\ selectedTransactionIds' = IF checked THEN VisibleIds ELSE {}
    /\ UNCHANGED <<rev, apiKeySet, appState, transactions, errorMessage, isStreaming,
                   categories, noteStorage, sessions, timers, deleteTimers, storageFails,
                   uncaught, savedNotes, userOps, suggestions, filterCategory, sortConfig>>

\* the selected rows first, with the category
SelectedFirst(txs, ids, category) ==
    [i \in 1..Len(SelectSeq(txs, LAMBDA t : t.id \in ids)) |->
        [SelectSeq(txs, LAMBDA t : t.id \in ids)[i] EXCEPT !.category = category]]
      \o SelectSeq(txs, LAMBDA t : t.id \notin ids)

\* prevTxs.map(tx => selectedTransactionIds.has(tx.id) ? { ...tx, category } : tx)
ApplyToSelected(txs, ids, category) ==
    [i \in 1..Len(txs) |-> IF txs[i].id \in ids
                            THEN [txs[i] EXCEPT !.category = category]
                            ELSE txs[i]]

\* a category is chosen in the bulk action bar, shown while rows are selected
handleApplyBulkCategory(category) ==
    /\ rev = 4
    /\ View = "AnalysisScreen"
    /\ userOps < MaxUserOps
    /\ selectedTransactionIds # {}
    /\ category \in CategoryOptions
    /\ transactions' = ApplyToSelected(transactions, selectedTransactionIds, category)
    /\ selectedTransactionIds' = {}
    /\ userOps' = userOps + 1
    /\ UNCHANGED <<rev, apiKeySet, appState, errorMessage, isStreaming,
                   categories, noteStorage, sessions, timers, deleteTimers, storageFails,
                   uncaught, savedNotes, suggestions, filterCategory, sortConfig>>

\* the keys of the columns whose header sorts the table
SortKeys == {"date", "amount"}

\* the header of a column is clicked
requestSort(key) ==
    /\ rev = 3
    /\ View = "AnalysisScreen"
    /\ sortConfig' = [key |-> key,
                      direction |-> IF sortConfig.key = key /\ sortConfig.direction = "asc"
                                    THEN "desc" ELSE "asc"]
    /\ sortConfig' # sortConfig
    /\ UNCHANGED <<rev, apiKeySet, appState, transactions, errorMessage, isStreaming,
                   categories, noteStorage, sessions, timers, deleteTimers, storageFails,
                   uncaught, savedNotes, userOps, suggestions, filterCategory,
                   selectedTransactionIds>>

\* the comparison of the sort: by amount, or 0 for the dates, which are all
\* the same string in the texts of the model
Precedes(a, b) ==
    /\ sortConfig.key = "amount"
    /\ IF sortConfig.direction = "asc" THEN a.amount.n < b.amount.n
                                        ELSE a.amount.n > b.amount.n

\* Array.prototype.sort, which is stable: t goes in front of the first
\* element it precedes
RECURSIVE Insert(_, _)
Insert(t, sorted) ==
    IF sorted = <<>> THEN <<t>>
    ELSE IF Precedes(t, Head(sorted)) THEN <<t>> \o sorted
    ELSE <<Head(sorted)>> \o Insert(t, Tail(sorted))

RECURSIVE Sort(_)
Sort(txs) == IF txs = <<>> THEN <<>>
             ELSE Insert(txs[Len(txs)], Sort(SubSeq(txs, 1, Len(txs) - 1)))

\* the rows of the table where it can be sorted: a sorted copy of the filtered list
filteredAndSortedTransactions == Sort(filteredTransactions)

\* the text of the stream under the table operations: two records
TableTexts == {ValidLine1 \o <<NL>> \o ValidLine2 \o end : end \in {<<>>, <<NL>>}}

\* the operations on the table with one upload at a time
TableNext ==
    \/ \E s \in Slots, file \in Files :
          /\ \A r \in Slots : ~InFlight(r)
          /\ handleFileChange_Accept(s, file) /\ Commit
    \/ \E s \in Slots :
          sessions[s].pc = "submitting" /\ \E text \in TableTexts : streamOpens(s, text) /\ Commit
    \/ \E s \in Slots : \E len \in EditChunkLens(s) : streamChunk(s, len, StoppedClock) /\ Commit
    \/ \E s \in Slots : streamEnd(s, StoppedClock) /\ Commit
    \/ \E id \in VisibleIds, c \in CategoryOptions : handleTransactionCategoryChange(id, c) /\ Commit
    \/ \E id \in CategoryIds, name \in NameInputs : handleSaveCategory(id, name) /\ Commit
    \/ \E id \in CategoryIds : handleDeleteCategory(id) /\ Commit
    \/ \E d \in deleteTimers : deleteTimer(d) /\ Commit
    \/ \E c \in FilterOptions : setFilterCategory(c) /\ Commit
    \/ \E id \in VisibleIds, checked \in BOOLEAN : handleSelectTransaction(id, checked) /\ Commit
    \/ \E checked \in BOOLEAN : handleSelectAllTransactions(checked) /\ Commit
    \/ \E c \in CategoryOptions : handleApplyBulkCategory(c) /\ Commit
    \/ \E key \in SortKeys : requestSort(key) /\ Commit
    \/ resetApp /\ Commit

SpecTable == Init /\ [][TableNext]_vars

\* ------------------------------------------------- the category suggestion
\* the revisions with a suggestion button on each row
Suggests == rev \in {3, 4}

\* the names offered to the collaborator
OfferedNames == IF rev = 3 THEN CategoryNames ELSE CategoryNames \ {"Uncategorized"}

\* what the collaborator may answer: an offered name, or another string
Answers(p) == p.names \cup {"Uncategorized", "Travel"}

SuggestFailedMessage == "Failed to suggest a category. request failed"

\* the suggestion button of a row: the request is sent, and the handler
\* waits for the answer with the transactions and categories of its render
handleSuggestSingleCategory(id) ==
    /\ Suggests
    /\ View = "AnalysisScreen"
    /\ userOps < MaxUserOps
    /\ HasId(id)
    /\ \A p \in suggestions : p.id # id          \* the button is disabled meanwhile
    /\ (rev = 3 => Len(categories) > 0)
    /\ suggestions' = suggestions \cup {[id |-> id, txs |-> rendered, names |-> OfferedNames]}
    /\ errorMessage' = (IF rev = 4 THEN "" ELSE errorMessage)
    /\ userOps' = userOps + 1
    /\ UNCHANGED <<rev, apiKeySet, appState, transactions, isStreaming, categories,
                   noteStorage, sessions, timers, deleteTimers, storageFails, uncaught,
                   savedNotes, filterCategory, selectedTransactionIds, sortConfig>>

\* the answer arrives: an offered name becomes the category of the
\* transaction, by the updater of the store or by mapping the list the
\* handler started with; another answer changes nothing
suggestionArrives(p, answer) ==
    /\ p \in suggestions
    /\ suggestions' = suggestions \ {p}
    /\ transactions' = IF answer \notin p.names THEN transactions
                       ELSE IF rev = 3 THEN SetCategory(transactions, p.id, answer)
                       ELSE SetCategory(p.txs, p.id, answer)
    /\ UNCHANGED <<rev, apiKeySet, appState, errorMessage, isStreaming, categories,
                   noteStorage, sessions, timers, deleteTimers, storageFails, uncaught,
                   savedNotes, userOps, filterCategory, selectedTransactionIds, sortConfig>>

\* the request of the suggestion fails
suggestionFails(p) ==
    /\ p \in suggestions
    /\ suggestions' = suggestions \ {p}
    /\ errorMessage' = (IF rev = 4 THEN SuggestFailedMessage ELSE errorMessage)
    /\ UNCHANGED <<rev, apiKeySet, appState, transactions, isStreaming, categories,
                   noteStorage, sessions, timers, deleteTimers, storageFails, uncaught,
                   savedNotes, userOps, filterCategory, selectedTransactionIds, sortConfig>>

\* ------------------------------------------------------ overlapping activity
\* React renders the state that the stream handler has set
render ==
    /\ rendered # transactions
    /\ rendered' = transactions
    /\ UNCHANGED <<rev, apiKeySet, appState, transactions, errorMessage, isStreaming,
                   categories, noteStorage, sessions, timers, deleteTimers, storageFails,
                   uncaught, savedNotes, userOps, suggestions, filterCategory,
                   selectedTransactionIds, sortConfig>>

\* the rows that the last render shows
RenderedIds == {rendered[i].id : i \in 1..Len(rendered)}

\* uploads may overlap (a file is selected after Start Over while the
\* earlier stream still runs), a user event may be handled between a chunk's
\* setTransactions and the render that follows it, and a suggestion may be
\* pending while the store changes
RaceNext ==
    \/ \E s \in Slots, file \in Files : handleFileChange_Accept(s, file) /\ Commit
    \/ \E s \in Slots : requestFails(s) /\ Commit
    \/ \E s \in Slots :
          sessions[s].pc = "submitting" /\ \E text \in TableTexts : streamOpens(s, text) /\ Commit
    \/ \E s \in Slots : \E len \in EditChunkLens(s) :
          streamChunk(s, len, StoppedClock) /\ UNCHANGED rendered
    \/ \E s \in Slots : streamFails(s) /\ Commit
    \/ \E s \in Slots : streamEnd(s, StoppedClock) /\ UNCHANGED rendered
    \/ render
    \/ \E id \in RenderedIds, c \in CategoryOptions : handleTransactionCategoryChange(id, c) /\ Commit
    \/ \E id \in RenderedIds, text \in NoteInputs : handleSaveNote(id, text) /\ Commit
    \/ \E id \in CategoryIds, name \in NameInputs : handleSaveCategory(id, name) /\ Commit
    \/ resetApp /\ Commit
    \/ \E id \in RenderedIds : handleSuggestSingleCategory(id) /\ Commit
    \/ \E p \in suggestions : \E answer \in Answers(p) : suggestionArrives(p, answer) /\ Commit
    \/ \E p \in suggestions : suggestionFails(p) /\ Commit

SpecRace == Init /\ [][RaceNext]_vars

\* ------------------------------------------------- reference definitions
\* a transaction without its id
StripId(t) == [t EXCEPT !.id = ""]
StripIds(txs) == [i \in 1..Len(txs) |-> StripId(txs[i])]

\* the transaction (id aside) a valid line stands for, written out from the
\* line's JSON text
ExpectedTransaction(line) ==
    IF line = ValidLine1
    THEN [id |-> "", date |-> JStr("x"), description |-> JStr("x"), amount |-> JNum(12),
          type |-> JStr("debit"), category |-> "Uncategorized", notes |-> JUndef]
    ELSE [id |-> "", date |-> JStr("x"), description |-> JStr("X"), amount |-> JNum(2),
          type |-> JStr("credit"), category |-> "Uncategorized", notes |-> JUndef]

IsValidLine(line) == line \in ValidLines

\* the newline-separated segments of the whole text, the empty segment that
\* follows a final newline left out
SourceLines(text) ==
    LET segs == Split(text) IN
    IF segs[Len(segs)] = <<>> THEN SubSeq(segs, 1, Len(segs) - 1) ELSE segs

ExpectedStore(text) ==
    LET valid == SelectSeq(SourceLines(text), IsValidLine) IN
    [i \in 1..Len(valid) |-> ExpectedTransaction(valid[i])]

\* the store after the whole text arrived as one chunk and the stream ended
OneChunkStore(text) ==
    LET all == Split(text)
        lines == SubSeq(all, 1, Len(all) - 1)
        first == DecodeLines(lines, 0, [i \in 1..Len(lines) |-> 1])
        last == IF FlushesAtEnd THEN <<Carryover(all)>> ELSE <<>>
    IN first \o DecodeLines(last, Len(first), <<1>>)

Done(s) == sessions[s].pc = "done"

\* the revisions whose stream loop C1..C3 cite
LoopRevisions == {1, 4}

\* C1: for a text that is one complete valid record, every way of cutting it
\* into chunks leaves, once the stream has ended, the same single transaction
\* in the store (ids aside) as feeding the whole text as one chunk.
C1_ChunkBoundaryInvariance ==
    \A s \in Slots :
        (Done(s) /\ \E v \in ValidLines : sessions[s].text \in {v, v \o <<NL>>})
            => /\ StripIds(transactions) = StripIds(OneChunkStore(sessions[s].text))
               /\ (rev \in LoopRevisions => Len(transactions) = 1)

C1_Witness ==
    \E s \in Slots : /\ Done(s) /\ sessions[s].text = ValidLine1
                     /\ rev = 4 /\ Len(transactions) = 1
                     /\ transactions[1].amount = JNum(12)

\* C2: for N valid record lines distributed over the chunks in any way, the
\* store holds exactly N transactions once the stream has ended, in the order
\* of their lines.
C2_OrderPreservation ==
    \A s \in Slots :
        (Done(s) /\ rev \in LoopRevisions
            /\ \A i \in 1..Len(SourceLines(sessions[s].text)) :
                   SourceLines(sessions[s].text)[i] \in ValidLines)
            => /\ Len(transactions) = Len(SourceLines(sessions[s].text))
               /\ StripIds(transactions) = ExpectedStore(sessions[s].text)

C2_Witness ==
    \E s \in Slots : /\ Done(s) /\ rev = 1
                     /\ sessions[s].text = ValidLine1 \o <<NL>> \o ValidLine2
                     /\ Len(transactions) = 2
                     /\ transactions[1].type = JStr("debit")
                     /\ transactions[2].type = JStr("credit")

\* C3: for a stream that interleaves valid and invalid lines (empty,
\* truncated JSON, missing field, non-numeric amount), the store ends up with
\* exactly one transaction per valid line, in the valid lines' order, and
\* none for an invalid line.
C3_MalformedLineTolerance ==
    \A s \in Slots :
        (Done(s) /\ rev \in LoopRevisions)
            => StripIds(transactions) = ExpectedStore(sessions[s].text)

C3_Witness ==
    \E s \in Slots : /\ Done(s) /\ rev = 1
                     /\ sessions[s].text = StringAmountLine \o <<NL>> \o ValidLine2 \o <<NL>>
                     /\ Len(transactions) = 1
                     /\ transactions[1].amount = JNum(2)

\* C4: when the stream ends without a newline after its last valid record,
\* that record is still appended to the store.
C4_EndOfStreamFlush ==
    \A s \in Slots :
        LET src == SourceLines(sessions[s].text) IN
        (Done(s) /\ src # <<>> /\ src[Len(src)] \in ValidLines
            /\ sessions[s].text[Len(sessions[s].text)] # NL)
            => /\ Len(transactions) > 0
               /\ StripId(transactions[Len(transactions)])
                      = ExpectedTransaction(src[Len(src)])

\* C5: within one ingestion session the ids of the accepted records are
\* pairwise distinct, also for records accepted from one chunk and whatever
\* the clock returns for each.
C5_IdsDistinct ==
    \A i, j \in 1..Len(transactions) :
        i # j => transactions[i].id # transactions[j].id

C5_Witness ==
    /\ Len(transactions) = 2
    /\ transactions[1].id = "1-0"
    /\ transactions[2].id = "1-1"

ChunkOrFlush(s) ==
    /\ sessions[s].pc = "streaming"
    /\ sessions'[s].pc \in {"streaming", "done"}
    /\ sessions'[s] # sessions[s]

\* C6: a category or note edit made while the stream is in flight is never
\* overwritten by a later chunk: processing a chunk only appends and leaves
\* every transaction already in the store as it was.
C6_ChunksOnlyAppend ==
    [][\A s \in Slots : ChunkOrFlush(s)
          => /\ Len(transactions') >= Len(transactions)
             /\ SubSeq(transactions', 1, Len(transactions)) = transactions]_vars

BecomesFailed(s) == sessions[s].pc \in {"submitting", "streaming"} /\ sessions'[s].pc = "failed"

\* C7: when the collaborator throws during submission or streaming, the
\* transactions in the store before the failure are all still there
\* afterwards, unchanged and in the same order.
C7_FailureKeepsStore ==
    [][\A s \in Slots : BecomesFailed(s) => transactions' = transactions]_vars

C7_Witness ==
    \E s \in Slots : /\ sessions[s].pc = "failed" /\ sessions[s].pos > 0
                     /\ appState = "error" /\ Len(transactions) = 2

\* C8: in the failure state reached after a stream appended at least one
\* transaction, the transaction table is still the view shown to the user.
C8_TableShownAfterFailure ==
    (appState = "error" /\ Len(transactions) > 0
        /\ \E s \in Slots : sessions[s].pc = "failed")
        => View = "AnalysisScreen"

CollaboratorMessages ==
    {FailedMessage("API_KEY environment variable not set."),
     FailedMessage("request failed"), FailedMessage("stream failed")}

\* C9: a line or a final carryover that fails to decode never puts the app
\* into the error state and never stops the processing of what follows: a
\* streaming session stops only at the end of its stream or when the
\* collaborator raises, and the error state is entered from the ingestion
\* only with the message of a collaborator failure.
C9_DecodeErrorsContained ==
    [][/\ \A s \in Slots :
            sessions[s].pc = "streaming" /\ sessions'[s].pc = "failed"
                => errorMessage' \in CollaboratorMessages
       /\ \A s \in Slots :
            sessions[s].pc = "streaming" /\ sessions'[s].pc = "streaming"
                /\ sessions'[s].pos > sessions[s].pos
                => appState' = appState /\ errorMessage' = errorMessage
       /\ (appState' = "error" /\ appState # "error")
                => errorMessage' \in CollaboratorMessages \cup {InvalidPdfMessage}]_vars

C9_Witness ==
    \E s \in Slots : /\ Done(s) /\ appState = "analyzing" /\ errorMessage = ""
                     /\ sessions[s].text = TruncatedLine \o <<NL>> \o ValidLine1 \o <<NL>>
                     /\ Len(transactions) = 1

\* the file is a PDF by its declared type or by its name
IsPdf(file) == file.present /\ (file.type = "application/pdf"
                                   \/ EndsWith(ToLowerCase(file.name), DotPdf))

\* C10: a selected file starts an ingestion if and only if its MIME type is
\* application/pdf or its name ends in .pdf; a rejected file causes no
\* request and no change to the store.
C10_PdfByTypeOrName ==
    [][\A file \in Files :
        /\ (\E s \in Slots : handleFileChange_Accept(s, file)) => IsPdf(file)
        /\ handleFileChange_Reject(file)
              => ~IsPdf(file) /\ sessions' = sessions /\ transactions' = transactions]_vars

\* C11: a selected file that fails the validation puts the app directly into
\* the failed state with the user-facing message and arms the recovery
\* timer; when the timer fires with the app still in the failed state, the
\* app is back in the idle upload state with the message cleared.
C11_RejectFailsThenRecovers ==
    [][/\ \A file \in Files :
            (file.present /\ handleFileChange_Reject(file))
                => /\ appState' = "error"
                   /\ errorMessage' = InvalidPdfMessage
                   /\ timers' = timers + 1
       /\ (recoveryTimer /\ appState = "error")
                => appState' = "upload" /\ errorMessage' = ""]_vars

TypeTags == {JStr("debit"), JStr("credit")}

\* C12: every transaction in the store has a date and a description of
\* string shape, a numeric amount and a type that is 'debit' or 'credit'; a
\* line whose object has another shape adds no transaction.
C12_StoredFieldShapes ==
    \A i \in 1..Len(transactions) :
        /\ transactions[i].date.k = "string"
        /\ transactions[i].description.k = "string"
        /\ transactions[i].amount.k = "number"
        /\ transactions[i].type \in TypeTags

\* the ids the handler can synthesize
SynthesizedIds == {TransactionId(now, count) : now \in ClockValues, count \in 0..MaxLines}

\* C13: every transaction created from an accepted record has category
\* 'Uncategorized', no notes and the synthesized id, whatever keys named id,
\* category or notes the record carries.
C13_ExtraKeysIgnored ==
    \A i \in 1..Len(transactions) :
        /\ transactions[i].category = "Uncategorized"
        /\ transactions[i].notes = JUndef
        /\ transactions[i].id \in SynthesizedIds

\* a step that gave the category id a new name
Renames(id) ==
    /\ id \in CategoryIds
    /\ \E i \in 1..Len(categories') :
           categories'[i].id = id /\ categories'[i].name # FindCategory(id).name

NameAfter(id) == (CHOOSE c \in {categories'[i] : i \in 1..Len(categories')} : c.id = id).name

\* a step that removed the category c, deleted under the name it has now
Deletes(c) ==
    /\ c \in {categories[i] : i \in 1..Len(categories)}
    /\ \A i \in 1..Len(categories') : categories'[i].id # c.id
    /\ (rev = 3 \/ c \in deleteTimers)

\* C14: renaming a category gives its new name to every transaction that
\* carried the old one, deleting a category leaves every transaction that
\* carried its name with 'Uncategorized', and both steps leave the
\* transactions of other categories as they were.
C14_RenameThenDelete ==
    [][/\ \A id \in CategoryIds :
            Renames(id) => transactions' = Recategorize(transactions,
                                               FindCategory(id).name, NameAfter(id))
       /\ \A i \in 1..Len(categories) :
            Deletes(categories[i]) => transactions' = Recategorize(transactions,
                                               categories[i].name, "Uncategorized")]_vars

\* C15: after any sequence of category and assignment operations, every
\* transaction's category is 'Uncategorized' or the name of a category that
\* is in the category set.
C15_CategoryResolves ==
    \A i \in 1..Len(transactions) :
        transactions[i].category \in CategoryNames \cup {"Uncategorized"}

\* C18: a failure of localStorage is swallowed: while it throws, a chunk or
\* the final flush never takes the app to the error state, and saving a
\* note never lets the exception leave the handler.
C18_StorageFailureSwallowed ==
    [][/\ \A s \in Slots :
            (storageFails /\ ChunkOrFlush(s))
                => /\ appState' = appState
                   /\ errorMessage' = errorMessage
                   /\ sessions'[s].pc # "failed"
       /\ \A id \in RowIds, text \in NoteInputs :
            handleSaveNote(id, text) => ~uncaught']_vars

\* the chunk that the step of session s consumed
ChunkOf(s) == SubSeq(sessions[s].text, sessions[s].pos + 1, sessions'[s].pos)

\* C19: when the stream has ended, the lines handed to the decoder are the
\* non-blank newline-separated segments of the whole text, each once and in
\* stream order; a chunk without a newline hands over nothing and only
\* extends the carryover.
C19_LinesForwardedOnce ==
    [][\A s \in Slots :
        /\ (sessions[s].pc = "streaming" /\ sessions'[s].pc = "done")
              => sessions'[s].handed = HandedLines(SourceLines(sessions[s].text))
        /\ (sessions[s].pc = "streaming" /\ sessions'[s].pc = "streaming"
                /\ sessions'[s].pos > sessions[s].pos /\ IndexOfNL(ChunkOf(s)) = 0)
              => /\ sessions'[s].handed = sessions[s].handed
                 /\ sessions'[s].buffer = sessions[s].buffer \o ChunkOf(s)]_vars

\* the step of session s is one iteration of the for-await loop
ChunkStep(s) ==
    /\ sessions[s].pc = "streaming" /\ sessions'[s].pc = "streaming"
    /\ sessions'[s].pos > sessions[s].pos

\* the number of records the step of session s accepted
AcceptedIn(s) == sessions'[s].transactionCount - sessions[s].transactionCount

\* C20: a chunk that completes at least one accepted record updates the
\* store once, by appending all the records accepted from it in line order
\* to the transactions the store holds; a chunk that completes none does
\* not update the store.
C20_OneAppendPerChunk ==
    [][\A s \in Slots : ChunkStep(s) =>
          /\ sessions'[s].updates = (IF AcceptedIn(s) > 0 THEN 1 ELSE 0)
          /\ Len(transactions') = Len(transactions) + AcceptedIn(s)
          /\ SubSeq(transactions', 1, Len(transactions)) = transactions
          /\ \A k \in 1..AcceptedIn(s) :
                \E now \in ClockValues :
                    transactions'[Len(transactions) + k].id
                        = TransactionId(now, sessions[s].transactionCount + k - 1)]_vars

\* the rows that have the id
RowsWithId(id) == {i \in 1..Len(transactions) : transactions[i].id = id}

ExpectedNote(record) ==
    IF \E e \in savedNotes : e.record = record /\ e.note # ""
    THEN JStr((CHOOSE e \in savedNotes : e.record = record).note)
    ELSE JUndef

C21_StoreClearedOnUpload ==
    [][\A s \in Slots :
        /\ (\E file \in Files : handleFileChange_Accept(s, file)) => transactions' = <<>>
        /\ (sessions[s].pc = "streaming" /\ sessions[s].pos = 0) => transactions = <<>>]_vars

C21_Witness ==
    \E s \in Slots : /\ rev = 1 /\ sessions[s].held = 2
                     /\ sessions[s].pc = "submitting"
                     /\ transactions = <<>>

\* a transaction without what an edit may change
Unedited(t) == [t EXCEPT !.category = "", !.notes = JUndef]

\* the step keeps every stored transaction at its position
KeepsPositions ==
    \A i \in 1..Len(transactions) :
        i <= Len(transactions') /\ Unedited(transactions'[i]) = Unedited(transactions[i])

C23_StaleStreamShutOut ==
    [][\A s \in Slots :
        (sessions[s].superseded /\ ChunkOrFlush(s)) => transactions' = transactions]_vars

\* a step of one of the three edit handlers
EditStep ==
    \/ \E id \in RenderedIds, c \in CategoryOptions : handleTransactionCategoryChange(id, c)
    \/ \E id \in RenderedIds, text \in NoteInputs : handleSaveNote(id, text)
    \/ \E id \in CategoryIds, name \in NameInputs : handleSaveCategory(id, name)

\* C24: a category change, a note save or a category rename never removes a
\* transaction from the store, also when a chunk has appended since the
\* render that the handler runs on.
C24_EditsKeepAppends ==
    [][EditStep => /\ Len(transactions') = Len(transactions)
                   /\ \A i \in 1..Len(transactions) :
                         transactions'[i].id = transactions[i].id]_vars

\* C25: when the answer of a suggestion arrives, the store after the step
\* is the store before it with at most the category of the transaction the
\* suggestion was requested for changed: what was appended or edited while
\* the request was pending is still there.
C25_SuggestionKeepsStore ==
    [][\A p \in suggestions : \A answer \in Answers(p) :
          suggestionArrives(p, answer)
              => transactions' \in {transactions, SetCategory(transactions, p.id, answer)}]_vars

\* C26: when the recovery timer of a rejected file fires, the app state
\* changes only if the app shows the validation error: an error state with
\* the message of a failed ingestion, the upload state and the analyzing
\* state are left as they are.
C26_TimerClearsOwnError ==
    [][recoveryTimer =>
          /\ (appState = "error" /\ errorMessage # InvalidPdfMessage) => appState' = "error"
          /\ appState \in {"upload", "analyzing"} => appState' = appState]_vars

\* C27: isStreaming is true exactly while some invocation of the upload
\* handler awaits the collaborator or consumes its stream.
C27_StreamingFlagExact ==
    isStreaming <=> \E s \in Slots : InFlight(s)

\* C28: the names of the categories are non-blank and pairwise distinct
\* ignoring letter case.
C28_CategoryNamesDistinct ==
    /\ \A i \in 1..Len(categories) : Trim(categories[i].name) # ""
    /\ \A i, j \in 1..Len(categories) :
          i # j => LowerName(categories[i].name) # LowerName(categories[j].name)

\* C29: a bulk update changes the category of exactly the selected
\* transactions, and each of them is a row that the filter shows: a
\* transaction that the filter hides is left as it was.
C29_BulkOnlyVisible ==
    [][\A c \in CategoryOptions : handleApplyBulkCategory(c) =>
          /\ transactions' = ApplyToSelected(transactions, selectedTransactionIds, c)
          /\ \A i \in 1..Len(transactions) :
                ~MatchesFilter(transactions[i]) => transactions'[i] = transactions[i]]_vars

\* the records of the statements with similar keys
NoteRecords == {RecordOf(JSONparse(l).obj) : l \in {ValidLine1, UpperDescriptionLine}}

\* the note that an ingestion restores for the record
RestoredNote(record) == OrUndefined(getItem(createTransactionKey(record)))

\* C30: saving or clearing the note of a transaction leaves the note that an
\* ingestion restores for every record that differs from the transaction's
\* in date, description, amount or type as it was.
C30_NotesKeyedByRecord ==
    [][\A id \in RowIds, text \in NoteInputs :
          (handleSaveNote(id, text) /\ HasId(id))
              => \A r \in NoteRecords :
                    r # RecordOf(FindTransaction(id)) => RestoredNote(r)' = RestoredNote(r)]_vars

====
